---- MODULE Spec2Model ----
(***************************************************************************)
(* Tool registry with content-hash caching (tools/base_tool.py,           *)
(* tools/cache_manager.py).                                                *)
(*                                                                         *)
(* Strings that the code builds (cache keys, joined key parts) are         *)
(* sequences of string tokens.  hashlib.md5(...).hexdigest() is modelled   *)
(* symbolically: the digest of a string is a token sequence that names     *)
(* the digested string, so two digests are equal exactly when the          *)
(* digested strings are equal (no md5 collisions).                         *)
(***************************************************************************)
EXTENDS Integers, Sequences, FiniteSets, TLC

(***************************************************************************)
(* Input domains                                                           *)
(***************************************************************************)
\* File-system paths that tools and cache calls name.
Paths == {"pA", "pB"}

\* File contents; Missing is the state of a path at which no file exists.
Contents == {"x", "Y"}
Missing == "missing"
FileStates == Contents \cup {Missing}

\* Base keys and dependency lists passed to CacheManager.get / set directly.
BaseKeys == {<<"k1">>}
DepLists == {<<>>, <<"pA">>}

\* Cap on each of the counters hits, misses and invalidations.
MaxCount == 2

\* CacheManager.__init__(max_size_mb=100)
MaxSizeMb == 100

\* "no value": Python's None where a string is expected.
None == "None"

\* Longest text file, in characters.
MaxLen == 3

VARIABLES
    files,          \* the file system: path -> content or Missing
    cache_files,    \* the *.cache files of cache_dir, oldest st_atime first
    file_hashes,    \* CacheManager._file_hashes: path -> hash or None
    hits,           \* CacheManager.hits
    misses,         \* CacheManager.misses
    invalidations,  \* CacheManager.invalidations
    tools,          \* ToolRegistry._tools: name -> class, in insertion order
    instances,      \* ToolRegistry._instances: name -> memoized instance
    contexts,       \* ToolRegistry._contexts: context -> list of names
    next_id,        \* identity of the next Tool object constructed
    reg_log,        \* the classes passed to register_tool so far, in order
    call,           \* the last operation called, with its arguments
    ret,            \* what that operation returned or raised
    trace,          \* the tool methods and cache calls that operation made
    memo,           \* the last execute_tool call served through the cache, while
                    \* the entry that holds its result stays stored
    disk,           \* how the cache directory answers: "ok" or the way it fails
    git_head,       \* what `git branch --show-current` finds in the work tree
    git_ran,        \* the git commands run_git_command has run besides it
    text_files,     \* the text files the io_utils functions read and write
    pending         \* the execute_tool call that has run apply and not yet
                    \* stored and returned its result

cacheVars == <<cache_files, file_hashes, hits, misses, invalidations>>
registryVars == <<tools, instances, contexts, next_id, reg_log>>
gitVars == <<git_head, git_ran>>
ioVars == <<text_files, pending>>
vars == <<files, cache_files, file_hashes, hits, misses, invalidations,
          tools, instances, contexts, next_id, reg_log, call, ret, trace, memo,
          disk, git_head, git_ran, text_files, pending>>

(***************************************************************************)
(* Sequence helpers                                                        *)
(***************************************************************************)
Range(s) == {s[i] : i \in 1..Len(s)}

RemoveAt(s, i) == SubSeq(s, 1, i - 1) \o SubSeq(s, i + 1, Len(s))

RECURSIVE SelectKeep(_, _)
\* The entries of s whose key is in keep, in the order of s.
SelectKeep(s, keep) ==
    IF s = <<>> THEN <<>>
    ELSE IF Head(s).key \in keep
         THEN <<Head(s)>> \o SelectKeep(Tail(s), keep)
         ELSE SelectKeep(Tail(s), keep)

(***************************************************************************)
(* CacheManager: pure parts                                                *)
(***************************************************************************)
\* hashlib.md5(content).hexdigest() of a file's bytes.
Md5Hex(content) ==
    CASE content = "x" -> "md5(x)"
      [] content = "Y" -> "md5(Y)"
      [] content = "" -> "md5()"

\* A hash function with no sentinel: a missing file hashes like an empty one.
get_file_hash_missing_as_empty(fs, file_path) ==
    IF fs[file_path] = Missing THEN Md5Hex("") ELSE Md5Hex(fs[file_path])

\* CacheManager._get_file_hash
get_file_hash(fs, file_path) ==
    IF fs[file_path] = Missing THEN "nonexistent" ELSE Md5Hex(fs[file_path])

RECURSIVE KeyParts(_, _)
\* "|".join of the parts f"{file_path}:{file_hash}", each preceded by "|".
KeyParts(fs, file_deps) ==
    IF file_deps = <<>> THEN <<>>
    ELSE <<"|", Head(file_deps), ":", get_file_hash(fs, Head(file_deps))>>
         \o KeyParts(fs, Tail(file_deps))

\* A key built from the dependency paths alone, their content hashes left out.
build_cache_key_without_hashes(fs, base_key, file_deps) ==
    <<"md5">> \o base_key \o file_deps

\* CacheManager._build_cache_key: md5 of base_key joined with the parts.
build_cache_key(fs, base_key, file_deps) ==
    <<"md5">> \o base_key \o KeyParts(fs, file_deps)

\* What a .cache file holds when pickle.dump failed part way.
Truncated == "truncated"

\* The ways the cache directory can answer its calls.
DiskModes == {"ok", "read_fails", "open_fails", "write_fails", "unlink_fails"}

\* Size in bytes of the pickled value as stored in its .cache file.
PickledSize(value) ==
    CASE value = "x" -> 40 * 1024 * 1024
      [] value = "Y" -> 60 * 1024 * 1024
      [] OTHER -> 64

Keys(cf) == {cf[i].key : i \in 1..Len(cf)}

\* The keys of the files pickle.load can read.
ReadableKeys(cf) == {cf[i].key : i \in {j \in 1..Len(cf) : cf[j].value # Truncated}}

IndexOf(cf, key) == CHOOSE i \in 1..Len(cf) : cf[i].key = key

RECURSIVE TotalSize(_)
TotalSize(cf) ==
    IF cf = <<>> THEN 0 ELSE PickledSize(Head(cf).value) + TotalSize(Tail(cf))

MaxSizeBytes == MaxSizeMb * 1024 * 1024

RECURSIVE EvictOldest(_)
\* The deletion loop of _cleanup_old_entries over the files sorted by atime.
EvictOldest(cf) ==
    IF cf = <<>> THEN cf
    ELSE IF TotalSize(Tail(cf)) <= MaxSizeBytes THEN Tail(cf)
         ELSE EvictOldest(Tail(cf))

\* A cleanup that never deletes anything.
cleanup_old_entries_keeps_all(cf) == cf

\* CacheManager._cleanup_old_entries
cleanup_old_entries(cf) ==
    IF TotalSize(cf) > MaxSizeBytes THEN EvictOldest(cf) ELSE cf

\* cache_path.touch(): the entry becomes the most recently accessed.
Touch(cf, key) ==
    LET i == IndexOf(cf, key) IN RemoveAt(cf, i) \o <<cf[i]>>

\* open(cache_path, 'wb') + pickle.dump: a new file is created with atime now;
\* an existing file is rewritten in place and keeps its access time.
WriteEntry(cf, key, value) ==
    IF key \in Keys(cf)
    THEN [cf EXCEPT ![IndexOf(cf, key)].value = value]
    ELSE Append(cf, [key |-> key, value |-> value])

\* A lookup that never finds the entry it is asked for.
cache_get_always_misses(cf, fs, cache_key, file_deps) ==
    [hit |-> FALSE, value |-> None, cache_files |-> cf]

\* A lookup that leaves an empty cache file behind when it finds none.
cache_get_reserving_the_entry(cf, fs, cache_key, file_deps) ==
    LET full_key == build_cache_key(fs, cache_key, file_deps) IN
    IF full_key \notin Keys(cf)
    THEN [hit |-> FALSE, value |-> None,
          cache_files |-> WriteEntry(cf, full_key, Truncated)]
    ELSE [hit |-> FALSE, value |-> None, cache_files |-> cf]

\* CacheManager.get: what it returns and the cache files it leaves.
cache_get(cf, fs, cache_key, file_deps) ==
    LET full_key == build_cache_key(fs, cache_key, file_deps) IN
    IF full_key \notin Keys(cf)
    THEN [hit |-> FALSE, value |-> None, cache_files |-> cf]
    ELSE IF disk = "read_fails" \/ cf[IndexOf(cf, full_key)].value = Truncated
    THEN \* open or pickle.load raises; the except branch counts a miss
         [hit |-> FALSE, value |-> None, cache_files |-> cf]
    ELSE [hit |-> TRUE, value |-> cf[IndexOf(cf, full_key)].value,
          cache_files |-> Touch(cf, full_key)]

\* CacheManager.set: the cache files and dependency hashes it leaves.
cache_set(cf, fh, fs, cache_key, value, file_deps) ==
    LET full_key == build_cache_key(fs, cache_key, file_deps)
        recorded == [p \in Paths |->
                       IF p \in Range(file_deps) THEN get_file_hash(fs, p)
                       ELSE fh[p]]
    IN
    CASE disk = "open_fails" ->
           \* open(cache_path, 'wb') raises: nothing was written
           [cache_files |-> cf, file_hashes |-> fh]
      [] disk = "write_fails" ->
           \* pickle.dump raises after open created or emptied the file
           [cache_files |-> WriteEntry(cf, full_key, Truncated), file_hashes |-> fh]
      [] disk = "unlink_fails" ->
           \* the first unlink of _cleanup_old_entries raises and is caught there
           [cache_files |-> WriteEntry(cf, full_key, value), file_hashes |-> recorded]
      [] OTHER ->
           [cache_files |-> cleanup_old_entries(WriteEntry(cf, full_key, value)),
            file_hashes |-> recorded]

\* The stats dictionary of CacheManager.get_stats; hit_rate in tenths of a
\* percent, as f"{hit_rate:.1f}%" prints it.
get_stats(cf, h, m, inv) ==
    [hits |-> h, misses |-> m,
     hit_rate |-> IF h + m > 0 THEN (h * 2000 + (h + m)) \div (2 * (h + m)) ELSE 0,
     invalidations |-> inv,
     cache_size |-> TotalSize(cf),
     entry_count |-> Len(cf),
     max_size_mb |-> MaxSizeMb]

(***************************************************************************)
(* Tool classes: the inputs of register_tool.  Each is a subclass of Tool  *)
(* given by its metadata and by the methods it overrides.                  *)
(***************************************************************************)
ToolClasses == {"KeyedTool", "KeyedToolV2", "PlainTool"}

\* The context buckets ToolRegistry.__init__ creates.
InitialContexts == {"exploration", "debugging", "refactoring", "general"}

\* Tool.metadata (name and context_modes of the ToolMetadata it returns).
metadata(cls) ==
    CASE cls = "KeyedTool" ->
           [name |-> "keyed", context_modes |-> <<"debugging">>]
      [] cls = "KeyedToolV2" ->
           [name |-> "keyed", context_modes |-> <<"exploration", "review">>]
      [] cls = "PlainTool" ->
           [name |-> "plain", context_modes |-> <<"exploration", "debugging">>]
      [] cls = "ScriptedTool" ->
           [name |-> "scripted", context_modes |-> <<"general">>]

\* The methods of a tool that execute_tool calls inside its try block, the
\* second get_file_dependencies call apart.
ToolSteps == {"validate_params", "get_cache_key", "get_file_dependencies",
              "pre_execute_hook", "apply", "post_execute_hook",
              "get_file_dependencies again"}

ExceptionKinds == {"ToolError", "ValueError"}

\* ScriptedTool raises in the method and with the exception its file_path
\* parameter names, and nowhere for any other parameter.
ScriptParams == {step \o "!" \o kind : step \in ToolSteps, kind \in ExceptionKinds}

NoException == [kind |-> "none", message |-> None, tool_name |-> None,
                details |-> None]

\* The exception the method `step` of an instance of cls raises when called
\* with file_path, NoException when it returns.
Raised(cls, file_path, step) ==
    IF cls = "KeyedTool" /\ step = "validate_params" /\ file_path = None
    THEN [kind |-> "ToolError", message |-> "file_path parameter is required",
          tool_name |-> metadata(cls).name, details |-> None]
    ELSE IF cls = "ScriptedTool" /\ file_path = step \o "!" \o "ToolError"
    THEN [kind |-> "ToolError", message |-> "refused by the tool",
          tool_name |-> "inner", details |-> "details of the tool"]
    ELSE IF cls = "ScriptedTool" /\ file_path = step \o "!" \o "ValueError"
    THEN [kind |-> "ValueError", message |-> "boom", tool_name |-> None,
          details |-> None]
    ELSE NoException

\* Tool.validate_params: the default passes the parameters through; KeyedTool
\* requires file_path as ReadFileTool does and raises ToolError without it.
validate_params(cls, file_path) ==
    IF cls = "KeyedTool" /\ file_path = None
    THEN [ok |-> FALSE, error |-> "file_path parameter is required",
          file_path |-> file_path]
    ELSE [ok |-> TRUE, error |-> None, file_path |-> file_path]

\* A gate that lets every context through.
can_execute_in_any_context(cls, context) == TRUE

\* Tool.can_execute
can_execute(cls, context) ==
    ~ (/\ context # None
       /\ context # ""
       /\ context \notin Range(metadata(cls).context_modes))

\* A get_cache_key that gives every tool a key made of its class and
\* parameters.
get_cache_key_for_every_class(cls, file_path) == <<cls, ":", file_path>>

\* Tool.get_cache_key: the default returns None (here the empty string, which
\* `if cache_key:` treats alike); KeyedTool returns a string fixed by its
\* parameters.
get_cache_key(cls, file_path) ==
    IF cls = "KeyedTool" THEN <<"keyed", ":", file_path>>
    ELSE IF cls = "ScriptedTool" THEN <<"scripted", ":", file_path>>
    ELSE <<>>

\* Tool.get_file_dependencies: the default returns None (here the empty list,
\* which `if file_deps:` treats alike); KeyedTool depends on the file it reads.
get_file_dependencies(cls, file_path) ==
    IF cls = "KeyedTool" THEN <<file_path>> ELSE <<>>

\* io_utils.read_file_content
read_file_content(fs, file_path) ==
    IF fs[file_path] = Missing THEN "Error reading file" ELSE fs[file_path]

\* An apply that returns its parameter.
apply_returns_its_parameter(cls, fs, file_path) == file_path

\* Tool.apply: KeyedTool reads its file; the other classes return a fixed text.
apply(cls, fs, file_path) ==
    IF cls = "KeyedTool" THEN read_file_content(fs, file_path) ELSE "done"

(***************************************************************************)
(* ToolRegistry: pure parts                                                *)
(***************************************************************************)
NoTool == [cls |-> None, id |-> 0]

NoInstances == [n \in {} |-> NoTool]

Names(t) == {t[i].name : i \in 1..Len(t)}

NameList(t) == [i \in 1..Len(t) |-> t[i].name]

ClassOf(t, name) == t[CHOOSE i \in 1..Len(t) : t[i].name = name].cls

\* A registration that puts the newest class first.
SetTool_at_front(t, name, cls) ==
    <<[name |-> name, cls |-> cls]>>
    \o SelectSeq(t, LAMBDA e : e.name # name)

\* self._tools[metadata.name] = tool_class: a dict keeps the position of a
\* key that is assigned again.
SetTool(t, name, cls) ==
    IF name \in Names(t)
    THEN [i \in 1..Len(t) |-> IF t[i].name = name
                              THEN [name |-> name, cls |-> cls] ELSE t[i]]
    ELSE Append(t, [name |-> name, cls |-> cls])

\* The context loop stopping after the first mode of the tool.
AddToContexts_first_mode_only(ctxs, modes, name) ==
    IF modes = <<>> THEN ctxs
    ELSE IF Head(modes) \in DOMAIN ctxs
         THEN [ctxs EXCEPT ![Head(modes)] = Append(@, name)]
         ELSE ctxs @@ (Head(modes) :> <<name>>)

RECURSIVE AddToContexts(_, _, _)
\* The loop of register_tool over metadata.context_modes.
AddToContexts(ctxs, modes, name) ==
    IF modes = <<>> THEN ctxs
    ELSE LET context == Head(modes)
             next == IF context \in DOMAIN ctxs
                     THEN [ctxs EXCEPT ![context] = Append(@, name)]
                     ELSE ctxs @@ (context :> <<name>>)
         IN AddToContexts(next, Tail(modes), name)

\* A registration that first takes the name out of every bucket.
register_tool_scrubbing_buckets(t, ctxs, cls) ==
    LET name == metadata(cls).name
        scrubbed == [c \in DOMAIN ctxs |->
                       SelectSeq(ctxs[c], LAMBDA n : n # name)]
    IN [tools |-> SetTool(t, name, cls),
        contexts |-> AddToContexts(scrubbed, metadata(cls).context_modes, name)]

\* ToolRegistry.register_tool: the _tools and _contexts it leaves.
register_tool(t, ctxs, cls) ==
    [tools |-> SetTool(t, metadata(cls).name, cls),
     contexts |-> AddToContexts(ctxs, metadata(cls).context_modes,
                                metadata(cls).name)]

\* A lookup that builds a new instance on every call and keeps none.
get_tool_without_memo(t, inst, nid, name) ==
    IF name \in Names(t)
    THEN [tool |-> [cls |-> ClassOf(t, name), id |-> nid],
          instances |-> inst, next_id |-> nid + 1]
    ELSE [tool |-> NoTool, instances |-> inst, next_id |-> nid]

\* A lookup that answers an unknown name with the first registered tool.
get_tool_with_fallback(t, inst, nid, name) ==
    LET known == IF name \in Names(t) \/ t = <<>> THEN name ELSE t[1].name IN
    IF known \in DOMAIN inst
    THEN [tool |-> inst[known], instances |-> inst, next_id |-> nid]
    ELSE IF known \in Names(t)
         THEN LET obj == [cls |-> ClassOf(t, known), id |-> nid] IN
              [tool |-> obj, instances |-> inst @@ (known :> obj),
               next_id |-> nid + 1]
         ELSE [tool |-> NoTool, instances |-> inst, next_id |-> nid]

\* ToolRegistry.get_tool: the instance it returns (NoTool for None) and the
\* _instances it leaves.
get_tool(t, inst, nid, name) ==
    IF name \in DOMAIN inst
    THEN [tool |-> inst[name], instances |-> inst, next_id |-> nid]
    ELSE IF name \in Names(t)
         THEN LET obj == [cls |-> ClassOf(t, name), id |-> nid] IN
              [tool |-> obj, instances |-> inst @@ (name :> obj),
               next_id |-> nid + 1]
         ELSE [tool |-> NoTool, instances |-> inst, next_id |-> nid]

RECURSIVE CollectMetadata(_, _, _, _)
\* The loop of list_tools: get_tool for each name, its metadata appended.
CollectMetadata(tool_names, t, inst, nid) ==
    IF tool_names = <<>>
    THEN [list |-> <<>>, instances |-> inst, next_id |-> nid]
    ELSE LET g == get_tool(t, inst, nid, Head(tool_names))
             rest == CollectMetadata(Tail(tool_names), t, g.instances, g.next_id)
         IN [list |-> (IF g.tool # NoTool
                       THEN <<metadata(g.tool.cls)>> ELSE <<>>) \o rest.list,
             instances |-> rest.instances,
             next_id |-> rest.next_id]

\* A listing that answers a context with no bucket with the empty list.
list_tools_unknown_context_is_empty(t, inst, ctxs, nid, context) ==
    LET tool_names == IF context = None \/ context = "" THEN NameList(t)
                      ELSE IF context \in DOMAIN ctxs THEN ctxs[context]
                      ELSE <<>>
    IN CollectMetadata(tool_names, t, inst, nid)

\* A listing that returns every registered tool whatever the context.
list_tools_ignoring_context(t, inst, ctxs, nid, context) ==
    CollectMetadata(NameList(t), t, inst, nid)

\* ToolRegistry.list_tools
list_tools(t, inst, ctxs, nid, context) ==
    LET tool_names == IF context # None /\ context # "" /\ context \in DOMAIN ctxs
                      THEN ctxs[context]
                      ELSE NameList(t)
    IN CollectMetadata(tool_names, t, inst, nid)

(***************************************************************************)
(* Calls and results                                                       *)
(***************************************************************************)
NoCall == [op |-> "none", name |-> None]

Call(op) == [NoCall EXCEPT !.op = op]

NoStats == [hits |-> 0, misses |-> 0, hit_rate |-> 0, invalidations |-> 0,
            cache_size |-> 0, entry_count |-> 0, max_size_mb |-> 0]

NoRet == [kind |-> "none", text |-> None, num |-> 0, list |-> <<>>,
          tool |-> NoTool, stats |-> NoStats, tool_name |-> None,
          details |-> None]

RetValue(v) == [NoRet EXCEPT !.kind = "value", !.text = v]
RetNone == [NoRet EXCEPT !.kind = "None"]
RetCount(n) == [NoRet EXCEPT !.kind = "count", !.num = n]
RetToolError(message) == [NoRet EXCEPT !.kind = "ToolError", !.text = message]

\* raise ToolError(message, tool_name, details)
ToolError(message, tool_name, details) ==
    [RetToolError(message) EXCEPT !.tool_name = tool_name, !.details = details]

\* The except clause of execute_tool with every exception wrapped, a
\* ToolError too.
Propagate_wraps_everything(name, e) ==
    ToolError("Execution failed: " \o e.message, name, e.message)

\* The except clause of execute_tool: a ToolError is raised again as it is,
\* any other exception e becomes a ToolError of the called name with str(e)
\* as details["original_error"].
Propagate(name, e) ==
    IF e.kind = "ToolError"
    THEN ToolError(e.message, e.tool_name, e.details)
    ELSE ToolError("Execution failed: " \o e.message, name, e.message)

NoTrace == [tool |-> NoTool, steps |-> <<>>]

\* No text file exists.
NoTextFiles == [n \in {} |-> <<>>]

\* No execute_tool call is under way.
NoPending == [active |-> FALSE, name |-> None, tool |-> NoTool, path |-> None,
              result |-> None]

\* The work tree before any git state is looked at.
NoHead == [state |-> "none", branch |-> None]

NoMemo == [name |-> None, context |-> None, path |-> None, content |-> None,
           text |-> None, key |-> <<>>]

\* The remembered call, forgotten once its entry is no longer among cf.
KeepMemo(cf) == IF memo.key \in ReadableKeys(cf) THEN memo ELSE NoMemo

(***************************************************************************)
(* CacheManager: the operations                                            *)
(***************************************************************************)
\* A get that counts a miss on every call, a hit besides when it finds the
\* entry.
Get_counting_every_call_as_miss(cache_key, file_deps) ==
    LET r == cache_get(cache_files, files, cache_key, file_deps) IN
    /\ hits < MaxCount
    /\ misses < MaxCount
    /\ cache_files' = r.cache_files
    /\ hits' = IF r.hit THEN hits + 1 ELSE hits
    /\ misses' = misses + 1
    /\ UNCHANGED <<disk, gitVars, ioVars>>
    /\ call' = Call("get")
    /\ ret' = IF r.hit THEN RetValue(r.value) ELSE RetNone
    /\ trace' = NoTrace
    /\ UNCHANGED <<files, file_hashes, invalidations, registryVars, memo>>

\* cache_manager.get(cache_key, file_deps)
Get(cache_key, file_deps) ==
    LET r == cache_get(cache_files, files, cache_key, file_deps) IN
    /\ IF r.hit THEN hits < MaxCount ELSE misses < MaxCount
    /\ cache_files' = r.cache_files
    /\ hits' = IF r.hit THEN hits + 1 ELSE hits
    /\ misses' = IF r.hit THEN misses ELSE misses + 1
    /\ UNCHANGED <<disk, gitVars, ioVars>>
    /\ call' = Call("get")
    /\ ret' = IF r.hit THEN RetValue(r.value) ELSE RetNone
    /\ trace' = NoTrace
    /\ UNCHANGED <<files, file_hashes, invalidations, registryVars, memo>>

\* cache_manager.set(cache_key, value, file_deps)
Set(cache_key, value, file_deps) ==
    LET r == cache_set(cache_files, file_hashes, files, cache_key, value, file_deps) IN
    /\ cache_files' = r.cache_files
    /\ file_hashes' = r.file_hashes
    /\ UNCHANGED <<disk, gitVars, ioVars>>
    /\ call' = Call("set")
    /\ ret' = RetNone
    /\ trace' = NoTrace
    /\ memo' = IF memo.key = build_cache_key(files, cache_key, file_deps)
               THEN NoMemo ELSE KeepMemo(r.cache_files)
    /\ UNCHANGED <<files, hits, misses, invalidations, registryVars>>

\* invalidate_file without the `old_hash and` test: a path with no recorded
\* hash is treated as changed.
InvalidateFile_without_recorded_check(file_path) ==
    LET current_hash == get_file_hash(files, file_path)
        old_hash == file_hashes[file_path]
    IN
    /\ UNCHANGED <<disk, gitVars, ioVars>>
    /\ call' = [Call("invalidate_file") EXCEPT !.name = file_path]
    /\ trace' = NoTrace
    /\ IF old_hash # current_hash
       THEN \E matched \in SUBSET Keys(cache_files) :
              LET invalidated == Cardinality(matched) IN
              /\ invalidations + invalidated <= MaxCount
              /\ cache_files' = SelectKeep(cache_files, Keys(cache_files) \ matched)
              /\ file_hashes' = [file_hashes EXCEPT ![file_path] = current_hash]
              /\ invalidations' = invalidations + invalidated
              /\ ret' = RetCount(invalidated)
       ELSE /\ ret' = RetCount(0)
            /\ UNCHANGED <<cache_files, file_hashes, invalidations>>
    /\ memo' = KeepMemo(cache_files')
    /\ UNCHANGED <<files, hits, misses, registryVars>>

\* cache_manager.invalidate_file(file_path).  `pattern in cache_file.name`
\* asks whether the first 8 hex digits of md5(file_path) occur in the md5 hex
\* digest that names the entry; neither digest is computed here, so which of
\* the stored entries match is left open: any subset may.
InvalidateFile(file_path) ==
    LET current_hash == get_file_hash(files, file_path)
        old_hash == file_hashes[file_path]
    IN
    /\ UNCHANGED <<disk, gitVars, ioVars>>
    /\ call' = [Call("invalidate_file") EXCEPT !.name = file_path]
    /\ trace' = NoTrace
    /\ IF old_hash # None /\ old_hash # current_hash
       THEN \E matched \in SUBSET Keys(cache_files) :
              LET invalidated == Cardinality(matched) IN
              /\ invalidations + invalidated <= MaxCount
              /\ cache_files' = SelectKeep(cache_files, Keys(cache_files) \ matched)
              /\ file_hashes' = [file_hashes EXCEPT ![file_path] = current_hash]
              /\ invalidations' = invalidations + invalidated
              /\ ret' = RetCount(invalidated)
       ELSE /\ ret' = RetCount(0)
            /\ UNCHANGED <<cache_files, file_hashes, invalidations>>
    /\ memo' = KeepMemo(cache_files')
    /\ UNCHANGED <<files, hits, misses, registryVars>>

\* clear() without `self._file_hashes.clear()`.
Clear_keeps_file_hashes ==
    /\ cache_files' = <<>>
    /\ UNCHANGED <<disk, gitVars, ioVars>>
    /\ call' = Call("clear")
    /\ ret' = RetCount(Len(cache_files))
    /\ trace' = NoTrace
    /\ memo' = NoMemo
    /\ UNCHANGED <<files, file_hashes, hits, misses, invalidations, registryVars>>

\* cache_manager.clear()
Clear ==
    /\ cache_files' = <<>>
    /\ file_hashes' = [p \in Paths |-> None]
    /\ UNCHANGED <<disk, gitVars, ioVars>>
    /\ call' = Call("clear")
    /\ ret' = RetCount(Len(cache_files))
    /\ trace' = NoTrace
    /\ memo' = NoMemo
    /\ UNCHANGED <<files, hits, misses, invalidations, registryVars>>

\* cache_manager.get_stats()
GetStats ==
    /\ UNCHANGED <<disk, gitVars, ioVars>>
    /\ call' = Call("get_stats")
    /\ ret' = [NoRet EXCEPT !.kind = "stats",
                            !.stats = get_stats(cache_files, hits, misses,
                                                invalidations)]
    /\ trace' = NoTrace
    /\ UNCHANGED <<files, cacheVars, registryVars, memo>>

(***************************************************************************)
(* The environment: a file is created, rewritten or deleted                *)
(***************************************************************************)
WriteFile(file_path, content) ==
    /\ content # files[file_path]
    /\ files' = [files EXCEPT ![file_path] = content]
    /\ UNCHANGED <<disk, gitVars, ioVars>>
    /\ call' = [Call("write_file") EXCEPT !.name = file_path]
    /\ ret' = NoRet
    /\ trace' = NoTrace
    /\ UNCHANGED <<cacheVars, registryVars, memo>>

\* The cache directory starts or stops failing in one of its ways.
DiskChanges(mode) ==
    /\ mode # disk
    /\ disk' = mode
    /\ call' = Call("disk")
    /\ ret' = NoRet
    /\ trace' = NoTrace
    /\ UNCHANGED <<files, cacheVars, registryVars, memo, gitVars, ioVars>>

(***************************************************************************)
(* ToolRegistry: the operations                                            *)
(***************************************************************************)
\* Cap on the number of register_tool calls.
MaxRegs == 3

\* registry.register_tool(tool_class); tool_class() builds a temporary
\* instance that is dropped once its metadata is read.
RegisterTool(cls) ==
    LET r == register_tool(tools, contexts, cls) IN
    /\ Len(reg_log) < MaxRegs
    /\ tools' = r.tools
    /\ contexts' = r.contexts
    /\ next_id' = next_id + 1
    /\ reg_log' = Append(reg_log, cls)
    /\ UNCHANGED <<disk, gitVars, ioVars>>
    /\ call' = [Call("register_tool") EXCEPT !.name = metadata(cls).name]
    /\ ret' = RetNone
    /\ trace' = NoTrace
    /\ UNCHANGED <<files, cacheVars, instances, memo>>

\* registry.get_tool(name)
GetTool(name) ==
    LET g == get_tool(tools, instances, next_id, name) IN
    /\ instances' = g.instances
    /\ next_id' = g.next_id
    /\ UNCHANGED <<disk, gitVars, ioVars>>
    /\ call' = [Call("get_tool") EXCEPT !.name = name]
    /\ ret' = IF g.tool = NoTool THEN RetNone
              ELSE [NoRet EXCEPT !.kind = "tool", !.tool = g.tool]
    /\ trace' = NoTrace
    /\ UNCHANGED <<files, cacheVars, tools, contexts, reg_log, memo>>

\* registry.list_tools(context)
ListTools(context) ==
    LET l == list_tools(tools, instances, contexts, next_id, context) IN
    /\ instances' = l.instances
    /\ next_id' = l.next_id
    /\ UNCHANGED <<disk, gitVars, ioVars>>
    /\ call' = [Call("list_tools") EXCEPT !.name = context]
    /\ ret' = [NoRet EXCEPT !.kind = "list", !.list = l.list]
    /\ trace' = NoTrace
    /\ UNCHANGED <<files, cacheVars, tools, contexts, reg_log, memo>>

\* The part of execute_tool inside its try block, for a resolved tool that
\* may execute: what it returns or raises, the calls it makes in their order
\* and the cache it leaves.
RunTool(name, tool, file_path) ==
    LET cls == tool.cls
        validated == validate_params(cls, file_path)
        cache_key == get_cache_key(cls, validated.file_path)
        file_deps == get_file_dependencies(cls, validated.file_path)
        cached == cache_get(cache_files, files, cache_key, file_deps)
        result == apply(cls, files, validated.file_path)
        stored == cache_set(cached.cache_files, file_hashes, files, cache_key,
                            result, file_deps)
        keyed == cache_key # <<>>
        s1 == <<"can_execute", "validate_params">>
        s2 == s1 \o <<"get_cache_key">>
        s3 == IF keyed THEN s2 \o <<"get_file_dependencies">> ELSE s2
        s4 == IF keyed THEN s3 \o <<"cache_manager.get">> ELSE s3
        s5 == s4 \o <<"pre_execute_hook">>
        s6 == s5 \o <<"apply">>
        s7 == s6 \o <<"post_execute_hook">>
        s8 == IF keyed THEN s7 \o <<"get_file_dependencies">> ELSE s7
        s9 == IF keyed THEN s8 \o <<"cache_manager.set">> ELSE s8
        unchanged == [cache_files |-> cache_files, file_hashes |-> file_hashes,
                      hit |-> FALSE, miss |-> FALSE, key |-> <<>>]
        looked_up == [cache_files |-> cached.cache_files,
                      file_hashes |-> file_hashes,
                      hit |-> FALSE, miss |-> keyed, key |-> <<>>]
        raises(step) == Raised(cls, file_path, step) # NoException
        raise(step) == Propagate(name, Raised(cls, file_path, step))
    IN
    IF raises("validate_params")
    THEN unchanged @@ [ret |-> raise("validate_params"), steps |-> s1]
    ELSE IF raises("get_cache_key")
    THEN unchanged @@ [ret |-> raise("get_cache_key"), steps |-> s2]
    ELSE IF keyed /\ raises("get_file_dependencies")
    THEN unchanged @@ [ret |-> raise("get_file_dependencies"), steps |-> s3]
    ELSE IF keyed /\ cached.hit
    THEN [cache_files |-> cached.cache_files, file_hashes |-> file_hashes,
          hit |-> TRUE, miss |-> FALSE,
          key |-> build_cache_key(files, cache_key, file_deps),
          ret |-> RetValue(cached.value), steps |-> s4]
    ELSE IF raises("pre_execute_hook")
    THEN looked_up @@ [ret |-> raise("pre_execute_hook"), steps |-> s5]
    ELSE IF raises("apply")
    THEN looked_up @@ [ret |-> raise("apply"), steps |-> s6]
    ELSE IF raises("post_execute_hook")
    THEN looked_up @@ [ret |-> raise("post_execute_hook"), steps |-> s7]
    ELSE IF keyed /\ raises("get_file_dependencies again")
    THEN looked_up @@ [ret |-> raise("get_file_dependencies again"), steps |-> s8]
    ELSE IF keyed
    THEN [cache_files |-> stored.cache_files, file_hashes |-> stored.file_hashes,
          hit |-> FALSE, miss |-> TRUE,
          key |-> build_cache_key(files, cache_key, file_deps),
          ret |-> RetValue(result), steps |-> s9]
    ELSE unchanged @@ [ret |-> RetValue(result), steps |-> s9]

\* A wrapper that lets a ToolError through to its caller.
mcp_tool_wrapper_letting_ToolError_through(tool_name, r) ==
    IF r.kind = "value" \/ r.kind = "ToolError" THEN r
    ELSE RetValue("Unexpected error: " \o r.text)

\* mcp_tool_wrapper, the function create_mcp_tool_from_registry(tool_name)
\* returns: what it returns for the outcome r of registry.execute_tool.
\* str(e) of a ToolError is its tool name, ": " and its message.
mcp_tool_wrapper(tool_name, r) ==
    IF r.kind = "value" THEN r
    ELSE IF r.kind = "ToolError"
    THEN RetValue("Error: " \o r.tool_name \o ": " \o r.text)
    ELSE RetValue("Unexpected error: " \o r.text)

\* The body of registry.execute_tool(name, context, file_path=...) as its
\* caller sees it: this_call is the call the caller is serving and Out what
\* the caller makes of the value returned or the exception raised, which
\* is a string when the caller is mcp_tool_wrapper.
ExecuteToolVia(this_call, name, context, file_path) ==
    LET g == get_tool(tools, instances, next_id, name)
        Out(r) == IF this_call.op = "mcp_tool_wrapper"
                  THEN mcp_tool_wrapper(name, r) ELSE r
    IN
    /\ instances' = g.instances
    /\ next_id' = g.next_id
    /\ UNCHANGED <<disk, gitVars, ioVars>>
    /\ call' = this_call
    /\ UNCHANGED <<files, invalidations, tools, contexts, reg_log>>
    /\ IF g.tool = NoTool
       THEN /\ ret' = Out(ToolError("not found", name, None))
            /\ trace' = NoTrace
            /\ UNCHANGED <<cache_files, file_hashes, hits, misses, memo>>
       ELSE IF ~ can_execute(g.tool.cls, context)
       THEN /\ ret' = Out(ToolError("cannot execute in context", name, None))
            /\ trace' = [tool |-> g.tool, steps |-> <<"can_execute">>]
            /\ UNCHANGED <<cache_files, file_hashes, hits, misses, memo>>
       ELSE LET r == RunTool(name, g.tool, file_path) IN
            /\ r.hit => hits < MaxCount
            /\ r.miss => misses < MaxCount
            /\ ret' = Out(r.ret)
            /\ trace' = [tool |-> g.tool, steps |-> r.steps]
            /\ cache_files' = r.cache_files
            /\ file_hashes' = r.file_hashes
            /\ hits' = IF r.hit THEN hits + 1 ELSE hits
            /\ misses' = IF r.miss THEN misses + 1 ELSE misses
            /\ memo' = IF r.key \in ReadableKeys(r.cache_files)
                       THEN [name |-> name, context |-> context,
                             path |-> file_path,
                             content |-> IF file_path \in Paths
                                         THEN files[file_path] ELSE None,
                             text |-> r.ret.text, key |-> r.key]
                       ELSE KeepMemo(r.cache_files)

\* registry.execute_tool(name, context, file_path=...)
ExecuteTool(name, context, file_path) ==
    ExecuteToolVia([Call("execute_tool") EXCEPT !.name = name],
                   name, context, file_path)

\* The TypeError Python raises when the keyword arguments hold a key that
\* is a positional parameter of execute_tool already given.
MultipleValues ==
    [NoRet EXCEPT !.kind = "TypeError",
                  !.text = "ToolRegistry.execute_tool() got multiple values for argument 'name'"]

\* The call mcp_tool_wrapper(**kwargs) of the wrapper built for tool_name,
\* with kwargs holding file_path, `context` when context is not None and
\* `name` when has_name.
WrapperCall(tool_name, context, file_path, has_name) ==
    [op |-> "mcp_tool_wrapper", name |-> tool_name,
     kwargs |-> [context |-> context, file_path |-> file_path,
                 has_name |-> has_name]]

\* create_mcp_tool_from_registry(tool_name)(**kwargs)
McpToolWrapper(tool_name, context, file_path, has_name) ==
    IF has_name
    THEN /\ call' = WrapperCall(tool_name, context, file_path, has_name)
         /\ ret' = mcp_tool_wrapper(tool_name, MultipleValues)
         /\ trace' = NoTrace
         /\ UNCHANGED <<files, cacheVars, registryVars, memo, disk, gitVars,
                        ioVars>>
    ELSE ExecuteToolVia(WrapperCall(tool_name, context, file_path, has_name),
                        tool_name, context, file_path)

\* execute_tool from its start to the return of apply, for a call that
\* misses the cache: the file system can change before the call goes on.
BeginExecute(name, file_path) ==
    LET g == get_tool(tools, instances, next_id, name)
        r == RunTool(name, g.tool, file_path)
    IN
    /\ ~ pending.active
    /\ g.tool # NoTool
    /\ r.miss
    /\ r.ret.kind = "value"
    /\ misses < MaxCount
    /\ instances' = g.instances
    /\ next_id' = g.next_id
    /\ misses' = misses + 1
    /\ pending' = [active |-> TRUE, name |-> name, tool |-> g.tool,
                   path |-> file_path, result |-> r.ret.text]
    /\ call' = [Call("execute_tool") EXCEPT !.name = name]
    /\ ret' = NoRet
    /\ trace' = [tool |-> g.tool,
                 steps |-> <<"can_execute", "validate_params", "get_cache_key",
                             "get_file_dependencies", "cache_manager.get",
                             "pre_execute_hook", "apply">>]
    /\ memo' = NoMemo
    /\ UNCHANGED <<files, cache_files, file_hashes, hits, invalidations, tools,
                   contexts, reg_log, disk, gitVars, text_files>>

\* The rest of that call: post_execute_hook, the dependencies computed
\* again, the store under the files as they are now, and the return.
FinishExecute ==
    LET cls == pending.tool.cls
        cache_key == get_cache_key(cls, pending.path)
        file_deps == get_file_dependencies(cls, pending.path)
        stored == cache_set(cache_files, file_hashes, files, cache_key,
                            pending.result, file_deps)
    IN
    /\ pending.active
    /\ cache_files' = stored.cache_files
    /\ file_hashes' = stored.file_hashes
    /\ pending' = NoPending
    /\ call' = [Call("execute_tool") EXCEPT !.name = pending.name]
    /\ ret' = RetValue(pending.result)
    /\ trace' = [tool |-> pending.tool,
                 steps |-> <<"post_execute_hook", "get_file_dependencies",
                             "cache_manager.set">>]
    /\ memo' = NoMemo
    /\ UNCHANGED <<files, hits, misses, invalidations, registryVars, disk,
                   gitVars, text_files>>

(***************************************************************************)
(* io_utils: patch_file                                                    *)
(***************************************************************************)
\* A file is the sequence of its characters; CR and LF are the two line-end
\* characters.  A path outside DOMAIN text_files names no file.
Chars == {"a", "CR", "LF"}
Texts(n) == UNION {[1..k -> Chars] : k \in 0..n}

TextPaths == {"notes.txt", "pyproject.toml"}
OldTexts == Texts(2)
NewTexts == {<<>>, <<"b">>}

\* io_utils.PROTECTED_FILES
PROTECTED_FILES == {"pyproject.toml", "uv.lock", ".gitignore", ".git",
                    "__pycache__"}

\* Path(file_path).name; the paths of the model have no directory part.
FileName(file_path) == file_path

BackupPath(file_path) == file_path \o ".backup"

RECURSIVE UniversalNewlines(_)
\* What open(path, 'r').read() returns for a file: in text mode CR LF and a
\* lone CR are both read as LF.
UniversalNewlines(chars) ==
    IF chars = <<>> THEN <<>>
    ELSE IF Head(chars) = "CR"
    THEN <<"LF">> \o UniversalNewlines(
             IF Len(chars) >= 2 /\ chars[2] = "LF"
             THEN SubSeq(chars, 3, Len(chars)) ELSE Tail(chars))
    ELSE <<Head(chars)>> \o UniversalNewlines(Tail(chars))

\* What open(path, 'w').write(text) leaves in the file: with os.linesep "\n"
\* the characters are written as they are.
WrittenText(text) == text

\* text[i:].startswith(old)
StartsWithAt(text, old, i) ==
    /\ i + Len(old) - 1 <= Len(text)
    /\ SubSeq(text, i, i + Len(old) - 1) = old

\* old in text
Contains(text, old) == \E i \in 1..(Len(text) + 1) : StartsWithAt(text, old, i)

RECURSIVE CountFrom(_, _, _)
CountFrom(text, old, i) ==
    IF i + Len(old) - 1 > Len(text) THEN 0
    ELSE IF StartsWithAt(text, old, i)
    THEN 1 + CountFrom(text, old, i + Len(old))
    ELSE CountFrom(text, old, i + 1)

\* str.count: occurrences that do not overlap, found from the left.
str_count(text, old) ==
    IF old = <<>> THEN Len(text) + 1 ELSE CountFrom(text, old, 1)

RECURSIVE ReplaceFrom(_, _, _, _)
ReplaceFrom(text, old, new, i) ==
    IF i > Len(text) THEN <<>>
    ELSE IF StartsWithAt(text, old, i)
    THEN new \o ReplaceFrom(text, old, new, i + Len(old))
    ELSE <<text[i]>> \o ReplaceFrom(text, old, new, i + 1)

RECURSIVE Interleave(_, _)
Interleave(text, new) ==
    IF text = <<>> THEN new
    ELSE new \o <<Head(text)>> \o Interleave(Tail(text), new)

\* str.replace
str_replace(text, old, new) ==
    IF old = <<>> THEN Interleave(text, new) ELSE ReplaceFrom(text, old, new, 1)

\* io_utils.patch_file: the files it leaves and the string it returns.
patch_file(tf, file_path, old_text, new_text) ==
    IF FileName(file_path) \in PROTECTED_FILES
    THEN [text_files |-> tf, text |-> "Error: protected and cannot be modified"]
    ELSE IF file_path \notin DOMAIN tf
    THEN [text_files |-> tf, text |-> "Error patching file"]
    ELSE LET content == UniversalNewlines(tf[file_path])
             backup_path == BackupPath(file_path)
             new_content == str_replace(content, old_text, new_text)
         IN
         IF ~ Contains(content, old_text)
         THEN [text_files |-> tf, text |-> "Error: Text not found in file"]
         ELSE IF str_count(content, old_text) > 1
         THEN [text_files |-> tf, text |-> "Error: Found matches for the text"]
         ELSE [text_files |->
                 (file_path :> WrittenText(new_content))
                 @@ (backup_path :> WrittenText(content)) @@ tf,
               text |-> "Successfully patched"]

\* The patch_file tool of the server.
PatchFile(file_path, old_text, new_text) ==
    LET r == patch_file(text_files, file_path, old_text, new_text) IN
    /\ text_files' = r.text_files
    /\ call' = [Call("patch_file") EXCEPT !.name = file_path]
    /\ ret' = RetValue(r.text)
    /\ trace' = NoTrace
    /\ UNCHANGED <<files, cacheVars, registryVars, memo, disk, gitVars, pending>>

(***************************************************************************)
(* git_utils: the push operation                                           *)
(***************************************************************************)
\* Branches of the repository, and what HEAD can be: no repository at the
\* working directory, a branch, or a commit with no branch (detached).
GitBranches == {"main", "MASTER", "feature"}

Heads ==
    {NoHead, [state |-> "detached", branch |-> None]}
    \cup {[state |-> "branch", branch |-> b] : b \in GitBranches}

\* The branch arguments git_push is called with; None is the default.
PushBranches == {None, "main", "Master", "MASTER", "feature"}

ShowCurrent == <<"git", "branch", "--show-current">>

\* str.lower on the strings it is applied to.
Lower(text) ==
    CASE text \in {"main", "Main", "MAIN"} -> "main"
      [] text \in {"master", "Master", "MASTER"} -> "master"
      [] text = "Command completed successfully" -> "command completed successfully"
      [] OTHER -> text

\* What the git process does with `command` in a repository whose HEAD is
\* `head`: return code, stdout and stderr.  The remote origin is configured.
GitProcess(head, command) ==
    IF command = ShowCurrent
    THEN [returncode |-> 0, stderr |-> "",
          stdout |-> IF head.state = "branch" THEN head.branch ELSE ""]
    ELSE IF command = <<"git", "push">> /\ head.state = "detached"
    THEN [returncode |-> 128, stdout |-> "",
          stderr |-> "fatal: You are not currently on a branch."]
    ELSE [returncode |-> 0, stdout |-> "", stderr |-> ""]

\* run_git_command: the text returned and the commands run after the
\* repository check.
run_git_command(head, command) ==
    IF head.state = "none"
    THEN [text |-> "Error: Not in a git repository", ran |-> <<>>]
    ELSE LET result == GitProcess(head, command) IN
         [text |-> IF result.returncode = 0
                   THEN IF result.stdout # "" THEN result.stdout
                        ELSE "Command completed successfully"
                   ELSE "Git error: " \o result.stderr,
          ran |-> <<command>>]

\* str.startswith("Error") on the texts run_git_command returns.
StartsWithError(text) == text = "Error: Not in a git repository"

\* get_current_branch
get_current_branch(head) ==
    LET result == run_git_command(head, ShowCurrent) IN
    [text |-> IF StartsWithError(result.text) THEN "" ELSE result.text,
     ran |-> result.ran]

\* do_git_push: the returned string in pieces, and the commands run.
do_git_push(head, branch) ==
    IF branch = None
    THEN LET current_branch == get_current_branch(head) IN
         IF current_branch.text = ""
         THEN [text |-> <<"Error: Could not determine current branch">>,
               ran |-> current_branch.ran]
         ELSE IF Lower(current_branch.text) \in {"main", "master"}
         THEN [text |-> <<"Error: Pushing to ", current_branch.text,
                          " branch is blocked for safety.",
                          " Please create a feature branch or specify a different branch explicitly.">>,
               ran |-> current_branch.ran]
         ELSE LET pushed == run_git_command(head, <<"git", "push">>) IN
              [text |-> <<pushed.text>>, ran |-> current_branch.ran \o pushed.ran]
    ELSE IF Lower(branch) \in {"main", "master"}
    THEN [text |-> <<"Error: Pushing to ", branch,
                     " branch is blocked for safety.",
                     " Use a feature branch instead.">>,
          ran |-> <<>>]
    ELSE LET pushed == run_git_command(head, <<"git", "push", "origin", branch>>) IN
         [text |-> <<pushed.text>>, ran |-> pushed.ran]

\* The git_push tool of the server.
GitPush(branch) ==
    LET r == do_git_push(git_head, branch) IN
    /\ Len(git_ran) + Len(r.ran) <= MaxCount + 1
    /\ git_ran' = git_ran \o r.ran
    /\ call' = [Call("git_push") EXCEPT !.name = branch]
    /\ ret' = [NoRet EXCEPT !.kind = "value", !.list = r.text]
    /\ trace' = NoTrace
    /\ UNCHANGED <<git_head, files, cacheVars, registryVars, memo, disk, ioVars>>

\* The environment: a checkout, a detached checkout, or another working
\* directory.
HeadChanges(head) ==
    /\ head # git_head
    /\ git_head' = head
    /\ call' = Call("head")
    /\ ret' = NoRet
    /\ trace' = NoTrace
    /\ UNCHANGED <<git_ran, files, cacheVars, registryVars, memo, disk, ioVars>>

(***************************************************************************)
(* Specifications                                                          *)
(***************************************************************************)
InitCache ==
    /\ cache_files = <<>>
    /\ file_hashes = [p \in Paths |-> None]
    /\ hits = 0
    /\ misses = 0
    /\ invalidations = 0

InitRegistry ==
    /\ tools = <<>>
    /\ instances = NoInstances
    /\ contexts = [c \in InitialContexts |-> <<>>]
    /\ next_id = 1
    /\ reg_log = <<>>

InitCalls ==
    /\ call = NoCall
    /\ ret = NoRet
    /\ trace = NoTrace
    /\ memo = NoMemo
    /\ disk = "ok"
    /\ git_head = NoHead
    /\ git_ran = <<>>
    /\ text_files = NoTextFiles
    /\ pending = NoPending

\* Names, contexts and parameters that callers pass.
CallNames == {"keyed", "plain", "ghost"}
CallContexts == {None, "", "debugging", "exploration"}
CallPaths == {None, "pA"}

\* The classes the server's imports register before it serves a call.
StartupClasses == <<"KeyedTool", "PlainTool">>

RECURSIVE RegisterAll(_, _, _)
RegisterAll(t, ctxs, classes) ==
    IF classes = <<>> THEN [tools |-> t, contexts |-> ctxs]
    ELSE LET r == register_tool(t, ctxs, Head(classes)) IN
         RegisterAll(r.tools, r.contexts, Tail(classes))

\* The server: tools are registered at import, then calls are served while
\* files change underneath.
Init ==
    LET r == RegisterAll(<<>>, [c \in InitialContexts |-> <<>>], StartupClasses) IN
    /\ files = [p \in Paths |-> Missing]
    /\ InitCache
    /\ tools = r.tools
    /\ contexts = r.contexts
    /\ instances = NoInstances
    /\ next_id = Len(StartupClasses) + 1
    /\ reg_log = StartupClasses
    /\ InitCalls

Next ==
    \/ \E c \in CallContexts : ListTools(c)
    \/ \E n \in CallNames, c \in CallContexts, p \in CallPaths : ExecuteTool(n, c, p)
    \/ \E c \in FileStates : WriteFile("pA", c)
    \/ Clear
    \/ GetStats

Spec == Init /\ [][Next]_vars

\* Contexts passed to execute_tool while classes are still being registered.
RegistryCallContexts == {None, "exploration"}

\* Contexts passed to list_tools: those of the callers and one that has no
\* bucket until a class with that mode is registered.
ListContexts == CallContexts \cup {"review"}

\* The registry alone: classes are registered and looked up in any order.
RegistryInit ==
    /\ files = [p \in Paths |-> IF p = "pA" THEN "x" ELSE Missing]
    /\ InitCache
    /\ InitRegistry
    /\ InitCalls

RegistryNext ==
    \/ \E cls \in ToolClasses : RegisterTool(cls)
    \/ \E n \in CallNames : GetTool(n)
    \/ \E c \in ListContexts : ListTools(c)
    \/ \E n \in CallNames, c \in RegistryCallContexts, p \in CallPaths :
          ExecuteTool(n, c, p)

RegistrySpec == RegistryInit /\ [][RegistryNext]_vars

\* The registry listed and called with a context, a bucket or not, while
\* classes are registered.
GateContexts == {"exploration", "debugging", "review"}

ContextNext ==
    \/ \E cls \in ToolClasses : RegisterTool(cls)
    \/ \E c \in GateContexts : ListTools(c)
    \/ \E n \in {"keyed", "plain"}, c \in GateContexts : ExecuteTool(n, c, "pA")

ContextSpec == RegistryInit /\ [][ContextNext]_vars

\* CacheManager driven directly through its public methods.
CacheInit ==
    /\ files = [p \in Paths |-> Missing]
    /\ InitCache
    /\ InitRegistry
    /\ InitCalls

CacheNext ==
    \/ \E k \in BaseKeys, d \in DepLists : Get(k, d)
    \/ \E k \in BaseKeys, v \in Contents, d \in DepLists : Set(k, v, d)
    \/ \E p \in Paths : InvalidateFile(p)
    \/ Clear
    \/ GetStats
    \/ \E c \in FileStates : WriteFile("pA", c)

CacheSpec == CacheInit /\ [][CacheNext]_vars

\* The server with a cache directory whose reads, writes and deletions can
\* fail while the cached tool is called.
FaultNext ==
    \/ ExecuteTool("keyed", None, "pA")
    \/ \E mode \in DiskModes : DiskChanges(mode)
    \/ \E c \in FileStates : WriteFile("pA", c)

FaultSpec == Init /\ [][FaultNext]_vars

\* The classes registered and the calls made when tools raise.
ErrorClasses == <<"ScriptedTool", "KeyedTool">>
ErrorCalls ==
    {<<"scripted", p>> : p \in ScriptParams \cup {"pA"}}
    \cup {<<"keyed", p>> : p \in CallPaths}

ErrorInit ==
    LET r == RegisterAll(<<>>, [c \in InitialContexts |-> <<>>], ErrorClasses) IN
    /\ files = [p \in Paths |-> IF p = "pA" THEN "x" ELSE Missing]
    /\ InitCache
    /\ tools = r.tools
    /\ contexts = r.contexts
    /\ instances = NoInstances
    /\ next_id = Len(ErrorClasses) + 1
    /\ reg_log = ErrorClasses
    /\ InitCalls

\* The registry serving calls to tools whose methods raise.
ErrorNext ==
    \/ \E c \in ErrorCalls : ExecuteTool(c[1], None, c[2])
    \/ Clear
    \/ GetStats

ErrorSpec == ErrorInit /\ [][ErrorNext]_vars

\* The calls a client makes through the dispatch wrappers: the registered
\* tools with parameters that make them return and raise, and a name that
\* was never registered.
DispatchCalls ==
    {<<"scripted", p>> : p \in {"pA", "validate_params!ToolError",
                                "apply!ValueError",
                                "post_execute_hook!ValueError"}}
    \cup {<<"keyed", p>> : p \in {None, "pA"}}
    \cup {<<"nosuch", "pA">>}
DispatchContexts == {None, "debugging"}

\* The server answering clients through the wrappers of
\* create_mcp_tool_from_registry.
DispatchNext ==
    \/ \E c \in DispatchCalls, context \in DispatchContexts, has_name \in BOOLEAN :
         McpToolWrapper(c[1], context, c[2], has_name)
    \/ Clear
    \/ GetStats

DispatchSpec == ErrorInit /\ [][DispatchNext]_vars

\* The git_push tool over a work tree whose HEAD moves.
GitNext ==
    \/ \E b \in PushBranches : GitPush(b)
    \/ \E h \in Heads : HeadChanges(h)

GitSpec == Init /\ [][GitNext]_vars

\* The cache called with two dependencies in either order, while the first
\* of them is written and deleted.
OrderedDepLists == {<<"pA", "pB">>, <<"pB", "pA">>}

DepsNext ==
    \/ \E k \in BaseKeys, d \in OrderedDepLists : Get(k, d)
    \/ \E k \in BaseKeys, v \in Contents, d \in OrderedDepLists : Set(k, v, d)
    \/ \E c \in {Missing, "x"} : WriteFile("pA", c)
    \/ Clear

DepsSpec == CacheInit /\ [][DepsNext]_vars

\* The cache called with one dependency that is created empty, written and
\* deleted; the value stored says what the dependency was when it was stored.
DepFileStates == {Missing, "", "x"}

SentinelNext ==
    \/ \E k \in BaseKeys : Get(k, <<"pA">>)
    \/ \E k \in BaseKeys : Set(k, files["pA"], <<"pA">>)
    \/ \E c \in DepFileStates : WriteFile("pA", c)
    \/ Clear

SentinelSpec == CacheInit /\ [][SentinelNext]_vars

\* The cache called with a plain base key and with a base key that holds
\* the separators: the text "k1|pA:nonexistent", which is what the plain
\* key k1 is joined to for the dependency pA while no file is at pA.
SeparatorKeys == {<<"k1">>, <<"k1", "|", "pA", ":", "nonexistent">>}

KeyNext ==
    \/ \E k \in SeparatorKeys, d \in DepLists : Get(k, d)
    \/ \E k \in SeparatorKeys, v \in Contents, d \in DepLists : Set(k, v, d)
    \/ \E c \in {Missing, "x"} : WriteFile("pA", c)
    \/ Clear

KeySpec == CacheInit /\ [][KeyNext]_vars

\* The server while another process writes the file a cached tool reads:
\* a call runs in one piece or stops between apply and the store.
StaleNext ==
    \/ ~ pending.active /\ ExecuteTool("keyed", None, "pA")
    \/ BeginExecute("keyed", "pA")
    \/ FinishExecute
    \/ \E c \in FileStates : WriteFile("pA", c)
    \/ ~ pending.active /\ Clear

StaleSpec == Init /\ [][StaleNext]_vars

\* patch_file applied to a text file of any content, to no file, and to a
\* protected file.
PatchInit ==
    /\ files = [p \in Paths |-> Missing]
    /\ InitCache
    /\ InitRegistry
    /\ call = NoCall
    /\ ret = NoRet
    /\ trace = NoTrace
    /\ memo = NoMemo
    /\ disk = "ok"
    /\ git_head = NoHead
    /\ git_ran = <<>>
    /\ pending = NoPending
    /\ text_files \in
         {"pyproject.toml" :> <<"a">>}
         \cup {("notes.txt" :> t) @@ ("pyproject.toml" :> <<"a">>) : t \in Texts(MaxLen)}

PatchNext ==
    \E p \in TextPaths, old \in OldTexts, new \in NewTexts : PatchFile(p, old, new)

PatchSpec == PatchInit /\ [][PatchNext]_vars

(***************************************************************************)
(* Properties of the cache as execute_tool uses it                         *)
(***************************************************************************)
HookSteps == {"pre_execute_hook", "apply", "post_execute_hook"}

\* The composite key execute_tool looks up for tool class cls and file_path
\* under the files as they are now.
LookupKey(cls, file_path) ==
    build_cache_key(files, get_cache_key(cls, file_path),
                    get_file_dependencies(cls, file_path))

\* C1: when execute_tool is called again with the name, context and
\* parameters of the last call served through the cache, the dependency file
\* has the content it had then and the entry is still stored, the call returns
\* the same result as a cache hit: the hit counter grows by one, the miss
\* counter stays, and neither apply nor the pre/post hooks run.
C1_SecondCallIsCacheHit ==
    [][\A n \in CallNames, c \in CallContexts, p \in CallPaths :
         (/\ memo.name = n /\ memo.context = c /\ memo.path = p
          /\ files[p] = memo.content
          /\ memo.key \in Keys(cache_files)
          /\ call'.name = n
          /\ ExecuteTool(n, c, p))
         => /\ ret' = RetValue(memo.text)
            /\ hits' = hits + 1
            /\ misses' = misses
            /\ "cache_manager.get" \in Range(trace'.steps)
            /\ HookSteps \cap Range(trace'.steps) = {}]_vars

\* A second call has been answered from the cache with the content of the
\* file that the first call read.
C1_Witness ==
    /\ call.op = "execute_tool"
    /\ memo.name = call.name
    /\ ret = RetValue(memo.text)
    /\ memo.content \in Contents
    /\ memo.text = memo.content
    /\ hits >= 1
    /\ misses >= 1
    /\ "cache_manager.get" \in Range(trace.steps)
    /\ HookSteps \cap Range(trace.steps) = {}

\* C2 as stated: once the dependency file's content differs from what it was
\* when the last result was cached, the next execute_tool for the same tool
\* and parameters is a cache miss: the old value is not returned, the miss
\* counter grows by one and apply runs again.
C2_ChangedDependencyAlwaysMisses ==
    [][\A n \in CallNames, c \in CallContexts, p \in CallPaths :
         (/\ memo.name = n /\ memo.path = p
          /\ files[p] # memo.content
          /\ call'.name = n
          /\ ExecuteTool(n, c, p)
          /\ ret'.kind = "value")
         => /\ ret'.text # memo.text
            /\ misses' = misses + 1
            /\ hits' = hits
            /\ "apply" \in Range(trace'.steps)]_vars

\* C2: once the dependency file's content differs from what it was when the
\* last result was cached, the next execute_tool for the same tool and
\* parameters does not return the old value; it is a miss (miss counter grows
\* by one, apply runs again) unless an entry stored earlier under the file's
\* new content is still in the store, and then it is a hit on that entry.
C2_ChangedDependencyNeverServesOldEntry ==
    [][\A n \in CallNames, c \in CallContexts, p \in CallPaths :
         (/\ memo.name = n /\ memo.path = p
          /\ files[p] # memo.content
          /\ call'.name = n
          /\ ExecuteTool(n, c, p)
          /\ ret'.kind = "value")
         => /\ ret'.text # memo.text
            /\ IF LookupKey(trace'.tool.cls, p) \in Keys(cache_files)
               THEN /\ hits' = hits + 1
                    /\ misses' = misses
                    /\ HookSteps \cap Range(trace'.steps) = {}
               ELSE /\ misses' = misses + 1
                    /\ hits' = hits
                    /\ "apply" \in Range(trace'.steps)
                    /\ "cache_manager.set" \in Range(trace'.steps)]_vars

\* After the file changed, the call missed and stored a second entry beside
\* the one kept for the old content.
C2_Witness ==
    /\ call.op = "execute_tool"
    /\ memo.name = call.name
    /\ "apply" \in Range(trace.steps)
    /\ "cache_manager.set" \in Range(trace.steps)
    /\ misses >= 2
    /\ Len(cache_files) >= 2
    /\ memo.content \in Contents

(***************************************************************************)
(* Properties of CacheManager                                              *)
(***************************************************************************)
\* The composite key was built with file_path among its dependencies.
DependsOn(key, file_path) ==
    \E i \in 1..(Len(key) - 1) : key[i] = "|" /\ key[i + 1] = file_path

\* C3: when file_path has a recorded hash that differs from its current hash
\* and entries stored with file_path as a dependency exist,
\* invalidate_file(file_path) deletes those entries, returns a count of at
\* least 1 and raises the invalidations counter by the count it returns.
C3_InvalidateFileDeletesDependents ==
    [][\A p \in Paths :
         (/\ file_hashes[p] # None
          /\ file_hashes[p] # get_file_hash(files, p)
          /\ \E e \in Range(cache_files) : DependsOn(e.key, p)
          /\ InvalidateFile(p))
         => /\ ret'.num >= 1
            /\ \A e \in Range(cache_files') : ~ DependsOn(e.key, p)
            /\ invalidations' = invalidations + ret'.num]_vars

\* C4: invalidate_file(file_path) returns 0 and changes neither the entries,
\* the recorded hashes nor the invalidations counter when file_path has no
\* recorded hash or its recorded hash equals its current hash; and every call
\* leaves file_path in one of these two cases, so that a second call with no
\* change in between returns 0.
C4_InvalidateFileWithoutChange ==
    [][\A p \in Paths :
         InvalidateFile(p)
         => /\ (file_hashes[p] = None \/ file_hashes[p] = get_file_hash(files, p))
               => /\ ret' = RetCount(0)
                  /\ cache_files' = cache_files
                  /\ file_hashes' = file_hashes
                  /\ invalidations' = invalidations
            /\ \/ file_hashes'[p] = None
               \/ file_hashes'[p] = get_file_hash(files', p)]_vars

\* invalidate_file returned 0 for a path whose recorded hash is current, with
\* an entry depending on that path left in the store.
C4_Witness ==
    /\ call.op = "invalidate_file"
    /\ ret = RetCount(0)
    /\ file_hashes[call.name] = get_file_hash(files, call.name)
    /\ \E e \in Range(cache_files) : DependsOn(e.key, call.name)

\* C5: clear() deletes every entry, empties the recorded dependency hashes
\* and returns the number of entries it deleted; hits, misses and
\* invalidations keep their values; a get_stats() that follows reports
\* entry_count 0 and the same counters.
C5_ClearEmptiesStoreKeepsCounters ==
    [][/\ Clear => /\ cache_files' = <<>>
                   /\ \A p \in Paths : file_hashes'[p] = None
                   /\ ret' = RetCount(Len(cache_files))
                   /\ hits' = hits
                   /\ misses' = misses
                   /\ invalidations' = invalidations
       /\ (call.op = "clear" /\ GetStats)
          => /\ ret'.stats.entry_count = 0
             /\ ret'.stats.cache_size = 0
             /\ ret'.stats.hits = hits
             /\ ret'.stats.misses = misses
             /\ ret'.stats.invalidations = invalidations]_vars

\* clear() has just deleted two entries while every counter was positive.
C5_Witness ==
    /\ call.op = "clear"
    /\ ret = RetCount(2)
    /\ cache_files = <<>>
    /\ hits >= 1
    /\ misses >= 1
    /\ invalidations >= 1

(***************************************************************************)
(* Properties of ToolRegistry                                              *)
(***************************************************************************)
\* C6: execute_tool with a name that was never registered fails with the
\* ToolError "not found"; the cache entries, recorded hashes and counters are
\* untouched, no instance is memoized and no method of any tool is called.
C6_UnknownNameFailsBeforeAnyWork ==
    [][\A n \in CallNames, c \in CallContexts, p \in CallPaths :
         (n \notin Names(tools) /\ call'.name = n /\ ExecuteTool(n, c, p))
         => /\ ret' = ToolError("not found", n, None)
            /\ trace' = NoTrace
            /\ instances' = instances
            /\ UNCHANGED cacheVars]_vars

\* An unknown name has just been refused while the cache held an entry and
\* had counted a hit and a miss.
C6_Witness ==
    /\ call.op = "execute_tool"
    /\ call.name \notin Names(tools)
    /\ ret = ToolError("not found", call.name, None)
    /\ cache_files # <<>>
    /\ hits >= 1
    /\ misses >= 1

\* The class passed to the last register_tool call whose metadata carries the
\* given name.
LastRegistered(name) ==
    LET regs == {i \in 1..Len(reg_log) : metadata(reg_log[i]).name = name}
    IN reg_log[CHOOSE i \in regs : \A j \in regs : j <= i]

RegisteredNames == {metadata(reg_log[i]).name : i \in 1..Len(reg_log)}

\* C7: the last registration of a name wins: get_tool(name) returns an
\* instance of the class registered last under that name and execute_tool(name)
\* runs that class, whatever lookups, listings and executions came before or
\* between the registrations.
C7_LastRegistrationWins ==
    /\ (call.op = "get_tool" /\ call.name \in RegisteredNames)
       => /\ ret.kind = "tool"
          /\ ret.tool.cls = LastRegistered(call.name)
    /\ (call.op = "execute_tool" /\ call.name \in RegisteredNames)
       => trace.tool.cls = LastRegistered(call.name)

\* Every class was registered once and no two of them share a name.
DistinctNames(log) ==
    \A i, j \in 1..Len(log) :
        i # j => metadata(log[i]).name # metadata(log[j]).name

\* C8: when the registered tools have pairwise distinct names, get_tool
\* returns for each name an instance of the class registered under it, and
\* list_tools() returns the metadata of each tool exactly once, in
\* registration order.
C8_DistinctNamesAllListedInOrder ==
    DistinctNames(reg_log)
    => /\ \A i \in 1..Len(reg_log) :
            get_tool(tools, instances, next_id,
                     metadata(reg_log[i]).name).tool.cls = reg_log[i]
       /\ list_tools(tools, instances, contexts, next_id, None).list
            = [i \in 1..Len(reg_log) |-> metadata(reg_log[i])]
       /\ (call.op = "list_tools" /\ call.name = None)
          => ret.list = [i \in 1..Len(reg_log) |-> metadata(reg_log[i])]

\* list_tools() has just returned two tools of distinct names, the one
\* registered first in front.
C8_Witness ==
    /\ DistinctNames(reg_log)
    /\ Len(reg_log) = 2
    /\ call.op = "list_tools"
    /\ call.name = None
    /\ ret.list = <<metadata(reg_log[1]), metadata(reg_log[2])>>

RECURSIVE WithContext(_, _)
\* The metadata of the registered classes whose context_modes contain
\* context, in registration order.
WithContext(log, context) ==
    IF log = <<>> THEN <<>>
    ELSE (IF context \in Range(metadata(Head(log)).context_modes)
          THEN <<metadata(Head(log))>> ELSE <<>>)
         \o WithContext(Tail(log), context)

\* C9: when each tool was registered once under a name of its own, then for
\* every known context bucket c list_tools(context=c) returns exactly the
\* tools whose context_modes contain c, in registration order.
C9_ContextListIsFilteredInOrder ==
    DistinctNames(reg_log)
    => /\ \A c \in DOMAIN contexts :
            list_tools(tools, instances, contexts, next_id, c).list
              = WithContext(reg_log, c)
       /\ (call.op = "list_tools" /\ call.name \in DOMAIN contexts)
          => ret.list = WithContext(reg_log, call.name)

\* list_tools("debugging") has just returned both tools of that bucket while a
\* third bucket member is absent from "exploration".
C9_Witness ==
    /\ DistinctNames(reg_log)
    /\ Len(reg_log) = 2
    /\ call.op = "list_tools"
    /\ call.name = "debugging"
    /\ Len(ret.list) = 2
    /\ ret.list[1] = metadata(reg_log[1])
    /\ Len(WithContext(reg_log, "exploration")) = 1

\* C10: an instance once memoized under a name stays the instance of that
\* name; get_tool and execute_tool for a registered name return and use that
\* instance, built on the first lookup and on no later one; get_tool for an
\* unknown name returns None and memoizes nothing.
C10_InstanceIsMemoized ==
    [][/\ \A n \in DOMAIN instances :
            n \in DOMAIN instances' /\ instances'[n] = instances[n]
       /\ \A n \in CallNames :
            (call'.name = n /\ GetTool(n))
            => IF n \in Names(tools)
               THEN /\ ret'.kind = "tool"
                    /\ n \in DOMAIN instances'
                    /\ ret'.tool = instances'[n]
                    /\ IF n \in DOMAIN instances
                       THEN next_id' = next_id
                       ELSE ret'.tool.id = next_id
               ELSE /\ ret' = RetNone
                    /\ instances' = instances
                    /\ next_id' = next_id
       /\ (call'.op = "execute_tool" /\ call'.name \in Names(tools))
          => /\ call'.name \in DOMAIN instances'
             /\ trace'.tool = instances'[call'.name]]_vars

\* get_tool has just returned an instance that was built by an earlier
\* lookup: other objects were constructed after it.
C10_Witness ==
    /\ call.op = "get_tool"
    /\ ret.kind = "tool"
    /\ ret.tool = instances[call.name]
    /\ ret.tool.id + 1 < next_id

(***************************************************************************)
(* Properties of the cache under failures, and of eviction                 *)
(***************************************************************************)
\* C11: when the cache directory fails during execute_tool, the call still
\* returns apply's result; a failing read makes the lookup a miss (miss
\* counter up by one, apply runs) and a failing write makes set a no-op that
\* leaves the stored entries and the recorded hashes as they were.
C11_CacheFailureIsMissOrNoOp ==
    [][(disk # "ok" /\ ExecuteTool("keyed", None, "pA"))
       => /\ ret' = RetValue(apply("KeyedTool", files, "pA"))
          /\ disk = "read_fails"
             => /\ misses' = misses + 1
                /\ hits' = hits
                /\ "apply" \in Range(trace'.steps)
          /\ (disk \in {"open_fails", "write_fails"}
              /\ "cache_manager.set" \in Range(trace'.steps))
             => /\ cache_files' = cache_files
                /\ file_hashes' = file_hashes]_vars

\* C12: after every set that ran while the cache directory worked, called
\* directly or by execute_tool, the stored entries total at most
\* max_size_mb * 1024 * 1024 bytes.
C12_SizeBoundAfterSet ==
    [][(/\ disk = "ok"
        /\ \/ call'.op = "set"
           \/ call'.op = "execute_tool"
              /\ "cache_manager.set" \in Range(trace'.steps))
       => TotalSize(cache_files') <= MaxSizeBytes]_vars

\* A set has just completed and left the store filled exactly to the maximum.
C12_Witness ==
    /\ call.op = "set"
    /\ disk = "ok"
    /\ Len(cache_files) = 2
    /\ TotalSize(cache_files) = MaxSizeBytes

\* C13: eviction is least-recently-accessed first with storing and get hits
\* both counting as accesses: the entry a set stores and the entry a get hits
\* become the last in eviction order, and a set deletes the shortest run of
\* oldest entries that brings the total within the limit.
C13_EvictionIsLeastRecentlyAccessedFirst ==
    [][/\ \A k \in BaseKeys, v \in Contents, d \in DepLists :
            (call'.op = "set" /\ Set(k, v, d))
            => LET full_key == build_cache_key(files, k, d)
                   written == WriteEntry(cache_files, full_key, v)
               IN /\ \E n \in 0..Len(written) :
                        /\ cache_files' = SubSeq(written, n + 1, Len(written))
                        /\ \A m \in 0..(n - 1) :
                             TotalSize(SubSeq(written, m + 1, Len(written)))
                               > MaxSizeBytes
                  /\ cache_files' # <<>>
                     => cache_files'[Len(cache_files')].key = full_key
       /\ (call'.op = "get" /\ ret'.kind = "value")
          => cache_files'[Len(cache_files')].value = ret'.text]_vars

(***************************************************************************)
(* Properties of execute_tool: errors, gate and order of steps             *)
(***************************************************************************)
\* The method `step` was called in the course of the traced call.
Called(step, steps) ==
    IF step = "get_file_dependencies again"
    THEN Cardinality({i \in 1..Len(steps) : steps[i] = "get_file_dependencies"}) = 2
    ELSE step \in Range(steps)

\* C14: when a method that execute_tool calls inside its try block raises, a
\* ToolError reaches the caller as the same ToolError (message, tool name and
\* details unchanged), and any other exception reaches the caller as a
\* ToolError that carries the called tool's name and the original message in
\* its details.
C14_ErrorsPropagateOrAreWrapped ==
    [][\A c \in ErrorCalls, step \in ToolSteps :
         (/\ call'.name = c[1]
          /\ Raised(trace'.tool.cls, c[2], step) # NoException
          /\ Called(step, trace'.steps)
          /\ ExecuteTool(c[1], None, c[2]))
         => LET e == Raised(trace'.tool.cls, c[2], step) IN
            IF e.kind = "ToolError"
            THEN ret' = ToolError(e.message, e.tool_name, e.details)
            ELSE /\ ret'.kind = "ToolError"
                 /\ ret'.tool_name = c[1]
                 /\ ret'.details = e.message
                 /\ ret'.text = "Execution failed: " \o e.message]_vars

\* An exception raised by apply, after the cache was looked up, has just
\* reached the caller wrapped in a ToolError.
C14_Witness ==
    /\ call.op = "execute_tool"
    /\ call.name = "scripted"
    /\ trace.steps[Len(trace.steps)] = "apply"
    /\ ret = ToolError("Execution failed: boom", "scripted", "boom")
    /\ misses >= 1

\* The call was refused at the context gate: nothing but can_execute ran and
\* the cache is as it was.
RefusedAtGate(n) ==
    /\ ret' = ToolError("cannot execute in context", n, None)
    /\ trace'.steps = <<"can_execute">>
    /\ UNCHANGED cacheVars

\* C15 as stated: execute_tool with a non-null context that is not among the
\* tool's context_modes fails with a ToolError at the gate, before
\* validate_params, get_cache_key, the cache, the hooks and apply, whatever the
\* parameters.
C15_NonNullContextOutsideModesIsRefused ==
    [][\A n \in CallNames, c \in CallContexts \ {None}, p \in CallPaths :
         (/\ call'.name = n
          /\ trace'.tool # NoTool
          /\ c \notin Range(metadata(trace'.tool.cls).context_modes)
          /\ ExecuteTool(n, c, p))
         => RefusedAtGate(n)]_vars

\* C15: execute_tool with a non-null, non-empty context that is not among the
\* tool's context_modes fails with a ToolError at the gate, before
\* validate_params, get_cache_key, the cache, the hooks and apply, whatever the
\* parameters.
C15_ContextOutsideModesIsRefused ==
    [][\A n \in CallNames, c \in CallContexts \ {None, ""}, p \in CallPaths :
         (/\ call'.name = n
          /\ trace'.tool # NoTool
          /\ c \notin Range(metadata(trace'.tool.cls).context_modes)
          /\ ExecuteTool(n, c, p))
         => RefusedAtGate(n)]_vars

\* The file-reading tool, whose only mode is debugging, has just been refused.
C15_Witness ==
    /\ call.op = "execute_tool"
    /\ trace.tool.cls = "KeyedTool"
    /\ trace.steps = <<"can_execute">>
    /\ ret = ToolError("cannot execute in context", "keyed", None)

(***************************************************************************)
(* Properties of git push                                                  *)
(***************************************************************************)
\* The commands the step has run.
RanInStep == SubSeq(git_ran', Len(git_ran) + 1, Len(git_ran'))

IsPush(command) == Len(command) >= 2 /\ command[2] = "push"

\* C16: git push called with branch main or master in any letter case, or
\* with no branch while the current branch is main or master or cannot be
\* determined, returns an error string (one that says blocked when the branch
\* is main or master) and runs no git push.
C16_ProtectedBranchIsNeverPushed ==
    [][\A b \in PushBranches :
         LET named == b # None /\ Lower(b) \in {"main", "master"}
             current == /\ b = None
                        /\ git_head.state = "branch"
                        /\ Lower(git_head.branch) \in {"main", "master"}
             undetermined == b = None /\ git_head.state # "branch"
         IN  (/\ call'.op = "git_push"
              /\ call'.name = b
              /\ named \/ current \/ undetermined
              /\ GitPush(b))
             => /\ \A i \in 1..Len(RanInStep) : ~ IsPush(RanInStep[i])
                /\ ret'.list # <<>>
                /\ ret'.list[1] \in {"Error: Pushing to ",
                                     "Error: Could not determine current branch"}
                /\ (named \/ current)
                     => " branch is blocked for safety." \in Range(ret'.list)]_vars

(***************************************************************************)
(* Properties of the composite key                                         *)
(***************************************************************************)
\* C17: the composite key does not depend on the order of the dependencies:
\* while an entry stored by set(k, v, d2) is readable and the files are as
\* they were, get(k, d) with the same dependencies in any order is a hit
\* that returns the entry's value.
C17_KeyIgnoresDependencyOrder ==
    [][\A k \in BaseKeys, d \in OrderedDepLists, d2 \in OrderedDepLists :
         LET stored == build_cache_key(files, k, d2) IN
         (/\ call'.op = "get"
          /\ Range(d) = Range(d2)
          /\ stored \in ReadableKeys(cache_files)
          /\ Get(k, d))
         => /\ ret'.kind = "value"
            /\ ret'.text = cache_files[IndexOf(cache_files, stored)].value
            /\ hits' = hits + 1]_vars

\* C18: a missing dependency hashes to a sentinel that no content hashes to:
\* a get never returns an entry stored while the dependency was missing once
\* the file exists, empty or not, and never returns an entry stored while
\* the file existed once it is deleted.
C18_MissingAndExistingNeverShareAnEntry ==
    [][\A k \in BaseKeys :
         (/\ call'.op = "get"
          /\ ret'.kind = "value"
          /\ Get(k, <<"pA">>))
         => (ret'.text = Missing <=> files["pA"] = Missing)]_vars

\* The dependency exists and is empty, an entry stored while it was missing
\* is in the store, and a get has just missed.
C18_Witness ==
    /\ call.op = "get"
    /\ ret = RetNone
    /\ files["pA"] = ""
    /\ \E i \in 1..Len(cache_files) :
         /\ cache_files[i].value = Missing
         /\ cache_files[i].key \in {build_cache_key([files EXCEPT !["pA"] = Missing],
                                                    k, <<"pA">>) : k \in BaseKeys}

(***************************************************************************)
(* Properties of execute_tool: the steps of a call that runs the tool      *)
(***************************************************************************)
\* The calls execute_tool makes, in order, when it runs a tool to the end.
StepsOfARun(keyed) ==
    <<"can_execute", "validate_params", "get_cache_key">>
    \o (IF keyed THEN <<"get_file_dependencies", "cache_manager.get">> ELSE <<>>)
    \o <<"pre_execute_hook", "apply", "post_execute_hook">>
    \o (IF keyed THEN <<"get_file_dependencies", "cache_manager.set">> ELSE <<>>)

RECURSIVE FirstRegistrations(_, _)
\* The names under which the classes of log were registered, each name at the
\* place of its first registration.
FirstRegistrations(log, seen) ==
    IF log = <<>> THEN <<>>
    ELSE LET name == metadata(Head(log)).name IN
         (IF name \in seen THEN <<>> ELSE <<name>>)
         \o FirstRegistrations(Tail(log), seen \cup {name})

\* The names of the listed metadata, in the order listed.
ListedNames(list) == [i \in 1..Len(list) |-> list[i].name]

\* C21: list_tools without a context, or with a context that names no
\* bucket, returns every registered tool once, in the order the names were
\* first registered (never the empty list while a tool is registered); when
\* no name was registered twice, the metadata are those of the registered
\* classes.
C21_UnknownContextListsEveryTool ==
    (/\ call.op = "list_tools"
     /\ call.name = None \/ call.name \notin DOMAIN contexts)
    => /\ ListedNames(ret.list) = FirstRegistrations(reg_log, {})
       /\ reg_log # <<>> => ret.list # <<>>
       /\ DistinctNames(reg_log)
            => ret.list = [i \in 1..Len(reg_log) |-> metadata(reg_log[i])]

\* list_tools("review") has just returned both registered tools while no
\* bucket of that name exists.
C21_Witness ==
    /\ call.op = "list_tools"
    /\ call.name = "review"
    /\ "review" \notin DOMAIN contexts
    /\ Len(ret.list) = 2

IsPrefix(s, t) == Len(s) <= Len(t) /\ SubSeq(t, 1, Len(s)) = s

\* C22: register_tool only appends to buckets: every bucket keeps what it
\* held as a prefix, each mode of the registered class has a bucket that ends
\* with its name afterwards, and so a name once registered with context c is
\* listed by list_tools(context=c) also after it was registered again with
\* modes that leave c out.
C22_RegistrationNeverScrubsBuckets ==
    [][/\ call'.op = "register_tool"
          => /\ \A c \in DOMAIN contexts :
                  /\ c \in DOMAIN contexts'
                  /\ IsPrefix(contexts[c], contexts'[c])
             /\ \A m \in Range(metadata(reg_log'[Len(reg_log')]).context_modes) :
                  /\ m \in DOMAIN contexts'
                  /\ contexts'[m] # <<>>
                  /\ contexts'[m][Len(contexts'[m])] = call'.name
       /\ (call'.op = "list_tools" /\ call'.name \in DOMAIN contexts)
          => \A i \in 1..Len(reg_log) :
               call'.name \in Range(metadata(reg_log[i]).context_modes)
               => metadata(reg_log[i]).name \in Range(ListedNames(ret'.list))]_vars

\* The name registered for debugging and registered again without it has
\* just been listed by list_tools("debugging").
C22_Witness ==
    /\ call.op = "list_tools"
    /\ call.name = "debugging"
    /\ "KeyedTool" \in Range(reg_log)
    /\ LastRegistered("keyed") = "KeyedToolV2"
    /\ "keyed" \in Range(ListedNames(ret.list))

(***************************************************************************)
(* Properties of patch_file                                                *)
(***************************************************************************)
PatchErrors == {"Error: protected and cannot be modified", "Error patching file",
                "Error: Text not found in file",
                "Error: Found matches for the text"}

\* C23: patch_file changes a file only when old_text occurs in it exactly
\* once: for a protected name, or when old_text occurs nowhere or at more than
\* one place, it returns an error string and leaves every file as it was, no
\* backup written; otherwise the backup holds the content the file had and
\* the file is that content with the one occurrence replaced by new_text.
C23_PatchOnlyASingleOccurrence ==
    [][\A p \in TextPaths, old \in OldTexts, new \in NewTexts :
         (/\ call'.op = "patch_file"
          /\ call'.name = p
          /\ p \in DOMAIN text_files
          /\ PatchFile(p, old, new))
         => LET before == text_files[p]
                places == {i \in 1..(Len(before) + 1) : StartsWithAt(before, old, i)}
            IN  IF FileName(p) \in PROTECTED_FILES \/ Cardinality(places) # 1
                THEN /\ ret'.text \in PatchErrors
                     /\ text_files' = text_files
                ELSE /\ ret'.text \notin PatchErrors
                     /\ BackupPath(p) \in DOMAIN text_files'
                     /\ text_files'[BackupPath(p)] = before
                     /\ \E i \in places :
                          text_files'[p] = SubSeq(before, 1, i - 1) \o new
                                           \o SubSeq(before, i + Len(old), Len(before))]_vars

(***************************************************************************)
(* Properties of cached results while files change                         *)
(***************************************************************************)
\* C24: a value that execute_tool returns from the cache is what apply
\* returns for the dependency as it is now, also when the dependency was
\* written between the apply and the store of an earlier call.
C24_NoStaleHit ==
    [][(/\ call'.op = "execute_tool"
        /\ hits' = hits + 1
        /\ ExecuteTool("keyed", None, "pA"))
       => ret' = RetValue(apply(trace'.tool.cls, files, "pA"))]_vars

(***************************************************************************)
(* Properties that relate listings to execution                            *)
(***************************************************************************)
\* The names list_tools(context) returns in the present state.
NamesListedFor(context) ==
    Range(ListedNames(list_tools(tools, instances, contexts, next_id, context).list))

\* C25 as stated: for every non-null context c, a tool that
\* list_tools(context=c) returns is not refused by execute_tool(name,
\* context=c) at the context gate, after any registrations.
C25_ListedToolsPassTheGate ==
    [][\A n \in {"keyed", "plain"}, c \in GateContexts :
         (/\ call'.name = n
          /\ n \in NamesListedFor(c)
          /\ ExecuteTool(n, c, "pA"))
         => ret' # ToolError("cannot execute in context", n, None)]_vars

\* C25: for every context c that names a bucket, and while no name has been
\* registered twice, a tool that list_tools(context=c) returns is not refused
\* by execute_tool(name, context=c) at the context gate.
C25_ListedInBucketPassesTheGate ==
    [][\A n \in {"keyed", "plain"}, c \in GateContexts :
         (/\ call'.name = n
          /\ c \in DOMAIN contexts
          /\ DistinctNames(reg_log)
          /\ n \in NamesListedFor(c)
          /\ ExecuteTool(n, c, "pA"))
         => /\ ret' # ToolError("cannot execute in context", n, None)
            /\ can_execute(trace'.tool.cls, c)
            /\ "apply" \in Range(trace'.steps) \/ hits' = hits + 1]_vars

\* A tool listed for the bucket debugging has just been executed in that
\* context, two tools being registered under names of their own.
C25_Witness ==
    /\ call.op = "execute_tool"
    /\ DistinctNames(reg_log)
    /\ Len(reg_log) = 2
    /\ call.name \in NamesListedFor("debugging")
    /\ trace.tool.cls = "KeyedTool"
    /\ "apply" \in Range(trace.steps)

(***************************************************************************)
(* C26                                                                     *)
(***************************************************************************)
\* The methods of a tool that run before the result is stored.
FailSteps == {"validate_params", "pre_execute_hook", "apply",
              "post_execute_hook"}

\* What the traced call returns and leaves when it is made again now.
RunAgain(name, file_path) == RunTool(name, trace.tool, file_path)

C27_CounterAccounting ==
    [][/\ hits' >= hits
       /\ misses' >= misses
       /\ invalidations' >= invalidations
       /\ call'.op = "get"
            => /\ invalidations' = invalidations
               /\ IF ret'.kind = "value"
                  THEN hits' = hits + 1 /\ misses' = misses
                  ELSE hits' = hits /\ misses' = misses + 1
       /\ call'.op \in {"set", "clear", "get_stats"}
            => UNCHANGED <<hits, misses, invalidations>>
       /\ call'.op = "invalidate_file"
            => UNCHANGED <<hits, misses>>]_vars

\* A get has just returned a stored value after gets that hit and missed
\* and an invalidation that deleted an entry.
C27_Witness ==
    /\ call.op = "get"
    /\ ret.kind = "value"
    /\ hits = 2
    /\ misses = 1
    /\ invalidations = 1

(***************************************************************************)
(* C28                                                                     *)
(***************************************************************************)
\* C28: the list returned by list_tools, with any context or with none,
\* names each tool at most once, whatever was registered before.
C28_NoDuplicatesInListings ==
    call.op = "list_tools"
      => LET names == ListedNames(ret.list) IN
         \A i, j \in 1..Len(names) : names[i] = names[j] => i = j

(***************************************************************************)
(* C29                                                                     *)
(***************************************************************************)
\* The string a client is to receive from the wrapper of tool_name called
\* with these keyword arguments, told from what the tool's methods do.
Answer(tool_name, context, file_path, has_name) ==
    IF has_name
    THEN "Unexpected error: " \o MultipleValues.text
    ELSE IF tool_name \notin Names(tools)
    THEN "Error: " \o tool_name \o ": not found"
    ELSE LET cls == ClassOf(tools, tool_name)
             raising == {step \in ToolSteps :
                           Raised(cls, file_path, step) # NoException}
         IN
         IF ~ can_execute(cls, context)
         THEN "Error: " \o tool_name \o ": cannot execute in context"
         ELSE IF raising # {}
         THEN LET e == Raised(cls, file_path, CHOOSE step \in raising : TRUE) IN
              IF e.kind = "ToolError"
              THEN "Error: " \o e.tool_name \o ": " \o e.message
              ELSE "Error: " \o tool_name \o ": Execution failed: " \o e.message
         ELSE apply(cls, files, file_path)

\* C29: the wrapper built by create_mcp_tool_from_registry returns a string
\* and raises nothing: the tool's result when the tool ran or was served
\* from the cache, "Error: " and the tool-name-prefixed message when
\* execute_tool raised ToolError (unknown tool, context refused, invalid
\* parameters, failed execution), and an "Unexpected error: " string for an
\* exception that is no ToolError.
C29_WrapperAlwaysReturnsAString ==
    [][call'.op = "mcp_tool_wrapper"
         => /\ McpToolWrapper(call'.name, call'.kwargs.context,
                              call'.kwargs.file_path, call'.kwargs.has_name)
            /\ ret'.kind = "value"
            /\ ret'.text = Answer(call'.name, call'.kwargs.context,
                                  call'.kwargs.file_path,
                                  call'.kwargs.has_name)]_vars

\* The wrapper has just returned the error string for a ValueError raised
\* by apply, which execute_tool had wrapped in a ToolError.
C29_Witness ==
    /\ call.op = "mcp_tool_wrapper"
    /\ call.name = "scripted"
    /\ trace.steps # <<>>
    /\ trace.steps[Len(trace.steps)] = "apply"
    /\ ret = RetValue("Error: scripted: Execution failed: boom")

(***************************************************************************)
(* C30                                                                     *)
(***************************************************************************)
\* C30: two requests share a stored entry only if they have the same base
\* key and the same dependencies with the same hashes: a get(k, d) that is
\* served the entry a set(k2, d2) would write now was called with k = k2 and
\* d = d2, also when a base key holds the separators "|" and ":".
C30_KeySeparation ==
    [][\A k \in SeparatorKeys, k2 \in SeparatorKeys, d \in DepLists, d2 \in DepLists :
         (/\ call'.op = "get"
          /\ ret'.kind = "value"
          /\ build_cache_key(files, k, d) = build_cache_key(files, k2, d2)
          /\ Get(k, d))
         => k = k2 /\ d = d2]_vars

====
